---- MODULE Spec2Model ----
(***************************************************************************)
(* Model of the HTNN plugin catalog (pkg/plugins/plugins.go), the plugin   *)
(* config parser, the per-consumer configuration resolution and transport  *)
(* form (internal/consumer/consumer.go), and the registry-factory table,   *)
(* ParseProtocol and ParseConfig of the registry package.                  *)
(***************************************************************************)
EXTENDS Integers, Sequences, FiniteSets, TLC

VARIABLES
    httpPlugins,      \* plugins.go:16  sync.Map name -> Plugin
    filterFactories,  \* filtermanager table name -> plugin behind the parser
    nameToOrder,      \* plugins.go:101 map name -> PluginOrder
    nameToOrderInit,  \* plugins.go:102 sync.Once: TRUE once Do has run
    ret,              \* what the last call did and returned
    frozenPlugins,    \* history: httpPlugins at the first ComparePluginOrder
    lastRegistered,   \* history: last non-nil plugin registered per name
    parseCall,        \* PluginConfigParser.Parse: the call and what it did
    Auth,             \* consumer.go:36 Consumer.Auth: name -> credential blob
    Filters,          \* consumer.go:37 Consumer.Filters: name -> data.Config
    ConsumerConfigs,  \* consumer.go:43 name -> validated credential config
    FilterConfigs,    \* consumer.go:44 name -> ParsedFilterConfig
    FilterNames,      \* consumer.go:48 the filter execution order
    initRet,          \* what the last InitConfigs call returned
    codec,            \* consumer.go:52-60 a Marshal / Unmarshal round
    proto,            \* part_000:66    a ParseProtocol call
    registry,         \* part_000:100    factory table, a Registry, last call
    threads,          \* concurrent callers: thread -> where it stands
    once              \* sync.Once internals behind nameToOrderInit

catalogVars == <<httpPlugins, filterFactories, nameToOrder, nameToOrderInit,
                 ret, frozenPlugins, lastRegistered>>

consumerVars == <<Auth, Filters, ConsumerConfigs, FilterConfigs, FilterNames,
                  initRet>>

extraVars == <<codec, proto, registry, threads, once>>

vars == <<httpPlugins, filterFactories, nameToOrder, nameToOrderInit, ret,
          frozenPlugins, lastRegistered, parseCall, Auth, Filters,
          ConsumerConfigs, FilterConfigs, FilterNames, initRet,
          codec, proto, registry, threads, once>>

----------------------------------------------------------------------------
(* Plugin names.  Go compares strings byte by byte, so each name carries   *)
(* its bytes.                                                              *)

Names == {"basic-auth", "oidc", "rate-limit"}

NameBytes ==
    [n \in Names |->
        CASE n = "basic-auth" -> <<98, 97, 115, 105, 99, 45, 97, 117, 116, 104>>
          [] n = "oidc"       -> <<111, 105, 100, 99>>
          [] n = "rate-limit" -> <<114, 97, 116, 101, 45, 108, 105, 109, 105, 116>>]

RECURSIVE BytesLess(_, _)
BytesLess(s, t) ==
    IF t = <<>> THEN FALSE
    ELSE IF s = <<>> THEN TRUE
    ELSE IF Head(s) # Head(t) THEN Head(s) < Head(t)
    ELSE BytesLess(Tail(s), Tail(t))

\* `a < b` on Go strings, tabulated over the names of the model
StrLessTable == [pr \in Names \X Names |-> BytesLess(NameBytes[pr[1]], NameBytes[pr[2]])]

StrLess(a, b) == StrLessTable[<<a, b>>]

----------------------------------------------------------------------------
(* Plugin objects.  A Plugin value is a pointer; 0 is the nil interface.   *)

NilPlugin == 0

Plugins == {1, 2, 3}

\* Plugin.Order() of each plugin object
PluginOrderOf ==
    [p \in Plugins |->
        CASE p = 1 -> [Position |-> 10, Operation |-> 0]
          [] p = 2 -> [Position |-> 20, Operation |-> 0]
          [] p = 3 -> [Position |-> 10, Operation |-> 1]]

\* whether the plugin object also implements plugins.ConsumerPlugin
IsConsumerPlugin == [p \in Plugins |-> p = 1]

\* the zero value of PluginOrder, read from a Go map for a missing key
ZeroOrder == [Position |-> 0, Operation |-> 0]

EmptyMap == [k \in {} |-> 0]

\* a store that keeps an existing entry (first writer wins)
MapStoreIfAbsent(m, k, v) ==
    [x \in (DOMAIN m) \cup {k} |-> IF x \in DOMAIN m THEN m[x] ELSE v]

\* m[k] = v on a Go map / sync.Map.Store
MapStore(m, k, v) == [x \in (DOMAIN m) \cup {k} |-> IF x = k THEN v ELSE m[x]]

----------------------------------------------------------------------------
(* Plugin catalog                                                          *)

NoCall == [op |-> "none", a |-> "", b |-> "", plugin |-> NilPlugin,
           ok |-> TRUE, less |-> FALSE]

\* sync.Map.Load followed by the nil return of LoadHttpPlugin
LoadHttpPluginValue(m, name) ==
    IF name \in DOMAIN m THEN m[name] ELSE NilPlugin

\* the sync.Once body of ComparePluginOrder: IterateHttpPlugin over the catalog
MaterializeOrder(m) == [k \in DOMAIN m |-> PluginOrderOf[m[k]]]

\* a Do that runs its body on every call
OrderAfterEveryCall(done, snapshot, m) == MaterializeOrder(m)

\* nameToOrderInit.Do(...): the body runs only when Do has not run before
OrderAfterOnce(done, snapshot, m) ==
    IF done THEN snapshot ELSE MaterializeOrder(m)

\* nameToOrder[k], the zero value when k is missing
OrderLookup(snapshot, k) ==
    IF k \in DOMAIN snapshot THEN snapshot[k] ELSE ZeroOrder

\* a comparison without the final tie-break on the name
OrderLessNoTieBreak(aOrder, bOrder, a, b) ==
    IF aOrder.Position # bOrder.Position
    THEN aOrder.Position < bOrder.Position
    ELSE aOrder.Operation < bOrder.Operation

\* a comparison that looks at Operation before Position
OrderLessOperationFirst(aOrder, bOrder, a, b) ==
    IF aOrder.Operation # bOrder.Operation
    THEN aOrder.Operation < bOrder.Operation
    ELSE IF aOrder.Position # bOrder.Position
         THEN aOrder.Position < bOrder.Position
         ELSE StrLess(a, b)

\* the comparison of ComparePluginOrder
OrderLess(aOrder, bOrder, a, b) ==
    IF aOrder.Position # bOrder.Position
    THEN aOrder.Position < bOrder.Position
    ELSE IF aOrder.Operation # bOrder.Operation
         THEN aOrder.Operation < bOrder.Operation
         ELSE StrLess(a, b)

\* the value ComparePluginOrder(a, b) returns when called with the Once in
\* state done, the map nameToOrder = snapshot and the catalog m
CompareValueIn(done, snapshot, m, a, b) ==
    LET after == OrderAfterOnce(done, snapshot, m)
    IN  OrderLess(OrderLookup(after, a), OrderLookup(after, b), a, b)

\* the value ComparePluginOrder(a, b) returns when called in the current state
ComparePluginOrderValue(a, b) ==
    CompareValueIn(nameToOrderInit, nameToOrder, httpPlugins, a, b)

----------------------------------------------------------------------------
(* PluginConfigParser.Parse                                                *)

\* A configuration value handed to Parse, described by what the steps of
\* Parse do with it: present = FALSE is the nil value (then valid / inits
\* describe the plugin's empty configuration object).
ConfigValues ==
    [present : BOOLEAN, marshals : BOOLEAN, decodes : BOOLEAN,
     valid : BOOLEAN, inits : BOOLEAN]

NoParse == [plugin |-> NilPlugin,
            any |-> [present |-> FALSE, marshals |-> FALSE, decodes |-> FALSE,
                     valid |-> FALSE, inits |-> FALSE],
            called |-> FALSE, steps |-> <<>>, ok |-> FALSE, err |-> "none"]

\* steps after Validate that go on to Init whatever Validate returned
ParseIgnoringValidateResult(any, steps) ==
    IF ~any.inits
    THEN [steps |-> Append(steps, "Init"), ok |-> FALSE, err |-> "init"]
    ELSE [steps |-> Append(steps, "Init"), ok |-> TRUE, err |-> "none"]

\* the steps of Parse after Validate has returned
ParseAfterValidate(any, steps) ==
    IF ~any.valid
    THEN [steps |-> steps, ok |-> FALSE, err |-> "validate"]
    ELSE IF ~any.inits
         THEN [steps |-> Append(steps, "Init"), ok |-> FALSE, err |-> "init"]
         ELSE [steps |-> Append(steps, "Init"), ok |-> TRUE, err |-> "none"]


\* (cp *PluginConfigParser) Parse(any, callbacks): the steps it runs, whether
\* it returns a configuration object, and the error it returns
PluginConfigParserParse(any) ==
    IF ~any.present
    THEN ParseAfterValidate(any, <<"Config", "Validate">>)
    ELSE IF ~any.marshals
         THEN [steps |-> <<"Config", "Marshal">>, ok |-> FALSE, err |-> "marshal"]
    ELSE IF ~any.decodes
         THEN [steps |-> <<"Config", "Marshal", "Unmarshal">>, ok |-> FALSE,
               err |-> "unmarshal"]
    ELSE ParseAfterValidate(any, <<"Config", "Marshal", "Unmarshal", "Validate">>)

----------------------------------------------------------------------------
(* Consumer (internal/consumer/consumer.go)                                *)

\* the most entries a Consumer of the model has in Auth and Filters together
MaxEntries == 2

\* credential blobs of Auth, described by what proto.UnmarshalJSON and
\* Validate do with them: well-formed and valid, malformed, invalid
AuthData ==
    {[decodes |-> TRUE, valid |-> TRUE],
     [decodes |-> FALSE, valid |-> FALSE],
     [decodes |-> TRUE, valid |-> FALSE]}

\* data.Config values of Filters: nil, a good value, a value that fails
\* Validate
FilterData ==
    {[present |-> FALSE, marshals |-> FALSE, decodes |-> FALSE,
      valid |-> TRUE, inits |-> TRUE],
     [present |-> TRUE, marshals |-> TRUE, decodes |-> TRUE,
      valid |-> TRUE, inits |-> TRUE],
     [present |-> TRUE, marshals |-> TRUE, decodes |-> TRUE,
      valid |-> FALSE, inits |-> TRUE]}

\* the maps from at most max of the keys to vals
MapsUpTo(keys, vals, max) ==
    UNION {[d -> vals] : d \in {x \in SUBSET keys : Cardinality(x) <= max}}

\* the orders in which a range over a Go map can visit the keys
RangeOrders(keys) ==
    {f \in [1..Cardinality(keys) -> keys] :
        \A i, j \in 1..Cardinality(keys) : i # j => f[i] # f[j]}

NoErr == [kind |-> "none", name |-> "", steps |-> <<>>]

NoInit == [called |-> FALSE, err |-> NoErr]

\* plugins.LoadHttpFilterFactoryAndParser(name): the plugin behind the
\* registered factory and parser, nil when nothing is registered
LoadHttpFilterFactoryAndParser(name) ==
    IF name \in DOMAIN filterFactories THEN filterFactories[name] ELSE NilPlugin

\* a loop body that goes on without the ConsumerPlugin type assertion's ok
AuthEntryNoCapabilityCheck(name, data) ==
    LET p == LoadHttpPluginValue(httpPlugins, name)
    IN  IF ~data.decodes
        THEN [err |-> [kind |-> "unmarshal", name |-> name,
                       steps |-> <<"ConsumerConfig", "Unmarshal">>]]
        ELSE IF ~data.valid
        THEN [err |-> [kind |-> "validate", name |-> name,
                       steps |-> <<"ConsumerConfig", "Unmarshal", "Validate">>]]
        ELSE [err |-> NoErr,
              conf |-> [plugin |-> p, data |-> data,
                        steps |-> <<"ConsumerConfig", "Unmarshal", "Validate">>]]

\* the body of the loop over c.Auth for one entry
AuthEntry(name, data) ==
    LET p == LoadHttpPluginValue(httpPlugins, name)
        isConsumer == IF p = NilPlugin THEN FALSE ELSE IsConsumerPlugin[p]
    IN  IF ~isConsumer
        THEN [err |-> [kind |-> "not_consumer", name |-> name, steps |-> <<>>]]
        ELSE IF ~data.decodes
        THEN [err |-> [kind |-> "unmarshal", name |-> name,
                       steps |-> <<"ConsumerConfig", "Unmarshal">>]]
        ELSE IF ~data.valid
        THEN [err |-> [kind |-> "validate", name |-> name,
                       steps |-> <<"ConsumerConfig", "Unmarshal", "Validate">>]]
        ELSE [err |-> NoErr,
              conf |-> [plugin |-> p, data |-> data,
                        steps |-> <<"ConsumerConfig", "Unmarshal", "Validate">>]]

\* the loop over c.Auth, visiting the keys in the given order from the i-th
RECURSIVE InitAuthConfigs(_, _, _)
InitAuthConfigs(order, i, configs) ==
    IF i > Len(order) THEN [configs |-> configs, err |-> NoErr]
    ELSE LET r == AuthEntry(order[i], Auth[order[i]])
         IN  IF r.err.kind # "none"
             THEN [configs |-> configs, err |-> r.err]
             ELSE InitAuthConfigs(order, i + 1, MapStore(configs, order[i], r.conf))

\* a loop body without the nil check on the looked-up factory and parser
FilterEntryNoNilCheck(name, config) ==
    LET p == LoadHttpFilterFactoryAndParser(name)
        out == PluginConfigParserParse(config)
    IN  IF ~out.ok
        THEN [err |-> [kind |-> "parse", name |-> name, steps |-> out.steps]]
        ELSE [err |-> NoErr,
              conf |-> [Name |-> name,
                        ParsedConfig |-> [plugin |-> p, data |-> config,
                                          steps |-> out.steps],
                        Factory |-> p]]

\* the body of the loop over c.Filters for one entry
FilterEntry(name, config) ==
    LET p == LoadHttpFilterFactoryAndParser(name)
        out == PluginConfigParserParse(config)
    IN  IF p = NilPlugin
        THEN [err |-> [kind |-> "not_found", name |-> name, steps |-> <<>>]]
        ELSE IF ~out.ok
        THEN [err |-> [kind |-> "parse", name |-> name, steps |-> out.steps]]
        ELSE [err |-> NoErr,
              conf |-> [Name |-> name,
                        ParsedConfig |-> [plugin |-> p, data |-> config,
                                          steps |-> out.steps],
                        Factory |-> p]]

\* a loop over c.Filters that skips a failing entry instead of returning
RECURSIVE InitFilterConfigsSkipFailures(_, _, _)
InitFilterConfigsSkipFailures(order, i, configs) ==
    IF i > Len(order) THEN [configs |-> configs, err |-> NoErr]
    ELSE LET r == FilterEntry(order[i], Filters[order[i]])
         IN  IF r.err.kind # "none"
             THEN InitFilterConfigsSkipFailures(order, i + 1, configs)
             ELSE InitFilterConfigsSkipFailures(order, i + 1,
                                                MapStore(configs, order[i], r.conf))

\* the loop over c.Filters
RECURSIVE InitFilterConfigs(_, _, _)
InitFilterConfigs(order, i, configs) ==
    IF i > Len(order) THEN [configs |-> configs, err |-> NoErr]
    ELSE LET r == FilterEntry(order[i], Filters[order[i]])
         IN  IF r.err.kind # "none"
             THEN [configs |-> configs, err |-> r.err]
             ELSE InitFilterConfigs(order, i + 1, MapStore(configs, order[i], r.conf))

\* (c *Consumer) InitConfigs(), the two ranges visiting in the given orders
InitConfigs(authOrder, filterOrder) ==
    LET a == InitAuthConfigs(authOrder, 1, EmptyMap)
        f == InitFilterConfigs(filterOrder, 1, EmptyMap)
    IN  /\ ConsumerConfigs' = a.configs
        /\ IF a.err.kind # "none"
           THEN /\ FilterConfigs' = FilterConfigs
                /\ initRet' = [called |-> TRUE, err |-> a.err]
           ELSE /\ FilterConfigs' = f.configs
                /\ initRet' = [called |-> TRUE, err |-> f.err]
        /\ UNCHANGED <<Auth, Filters, FilterNames, parseCall>>
        /\ UNCHANGED catalogVars
        /\ UNCHANGED extraVars

InitConfigsCall ==
    \E authOrder \in RangeOrders(DOMAIN Auth),
       filterOrder \in RangeOrders(DOMAIN Filters) :
        InitConfigs(authOrder, filterOrder)

\* c.ConsumerConfigs[name]: whether PluginConfig(name) is non-nil
PluginConfigNonNil(name) == name \in DOMAIN ConsumerConfigs

\* (c *Consumer) PluginConfig(name), called on a resolved Consumer
PluginConfig(name) ==
    /\ initRet.called /\ initRet.err.kind = "none"
    /\ ret' = [NoCall EXCEPT !.op = "PluginConfig", !.a = name,
                             !.ok = PluginConfigNonNil(name),
                             !.plugin = IF PluginConfigNonNil(name)
                                        THEN ConsumerConfigs[name].plugin
                                        ELSE NilPlugin]
    /\ UNCHANGED <<httpPlugins, filterFactories, nameToOrder, nameToOrderInit,
                   frozenPlugins, lastRegistered, parseCall>>
    /\ UNCHANGED consumerVars
    /\ UNCHANGED extraVars

PluginConfigCall == \E name \in Names : PluginConfig(name)

\* insertion of the name n into the sequence s sorted by ComparePluginOrder
RECURSIVE InsertByOrder(_, _, _)
InsertByOrder(snapshot, s, n) ==
    IF s = <<>> THEN <<n>>
    ELSE IF OrderLess(OrderLookup(snapshot, n), OrderLookup(snapshot, Head(s)),
                      n, Head(s))
         THEN <<n>> \o s
         ELSE <<Head(s)>> \o InsertByOrder(snapshot, Tail(s), n)

\* the names sorted by ComparePluginOrder
RECURSIVE SortByOrder(_, _)
SortByOrder(snapshot, names) ==
    IF names = {} THEN <<>>
    ELSE LET n == CHOOSE x \in names : TRUE
         IN  InsertByOrder(snapshot, SortByOrder(snapshot, names \ {n}), n)

\* the derivation of FilterNames for a resolved Consumer: the keys of
\* Filters sorted by ComparePluginOrder (which materializes the order
\* snapshot when it makes its first comparison)
DeriveFilterNames ==
    /\ initRet.called /\ initRet.err.kind = "none"
    /\ LET compares == Cardinality(DOMAIN Filters) >= 2
           snapshot == OrderAfterOnce(nameToOrderInit, nameToOrder, httpPlugins)
       IN  /\ FilterNames' = SortByOrder(snapshot, DOMAIN Filters)
           /\ nameToOrder' = IF compares THEN snapshot ELSE nameToOrder
           /\ nameToOrderInit' = (nameToOrderInit \/ compares)
           /\ frozenPlugins' = IF compares /\ ~nameToOrderInit
                               THEN httpPlugins ELSE frozenPlugins
    /\ ret' = [NoCall EXCEPT !.op = "FilterNames"]
    /\ UNCHANGED <<httpPlugins, filterFactories, lastRegistered, parseCall>>
    /\ UNCHANGED <<Auth, Filters, ConsumerConfigs, FilterConfigs, initRet>>
    /\ UNCHANGED extraVars

----------------------------------------------------------------------------
(* Consumer.Marshal / Consumer.Unmarshal (consumer.go:52-60) through       *)
(* encoding/json.  A Go map or slice is nil or a value, and the encoder    *)
(* tells the two apart, so both are carried here.  A string is the         *)
(* sequence of its code units.                                             *)

\* how many entries a map of a marshalled Consumer holds at most
MaxCodecEntries == 1

\* a byte that is not valid UTF-8, and the rune the encoder puts in its place
InvalidByte == 255
ReplacementRune == 65533

\* credential strings: "{}" and a string holding an invalid byte
AuthStrings == {<<123, 125>>, <<123, InvalidByte, 125>>}

\* values of FilterConfig.Config: two the encoder can write, one it cannot
\* (a channel)
CodecConfigs == {"cfgA", "cfgB", "chan"}

Encodable(cfg) == cfg # "chan"

NilMap == [nil |-> TRUE, m |-> EmptyMap]
NilSlice == [nil |-> TRUE, s |-> <<>>]
MapOf(m) == [nil |-> FALSE, m |-> m]
SliceOf(s) == [nil |-> FALSE, s |-> s]

\* &Consumer{}: every field nil
ZeroConsumer ==
    [Auth |-> NilMap, Filters |-> NilMap,
     ConsumerConfigs |-> NilMap, FilterConfigs |-> NilMap,
     CanSkipMethod |-> NilMap, FilterNames |-> NilSlice,
     FilterWrappers |-> NilSlice]

\* the Consumers a round is run on
CodecConsumers ==
    [Auth : {NilMap} \cup {MapOf(m) : m \in MapsUpTo(Names, AuthStrings, MaxCodecEntries)},
     Filters : {NilMap} \cup {MapOf(m) : m \in MapsUpTo(Names, CodecConfigs, MaxCodecEntries)},
     ConsumerConfigs : {NilMap, MapOf([n \in {"basic-auth"} |-> "validated"])},
     FilterConfigs : {NilMap, MapOf([n \in {"oidc"} |-> "parsed"])},
     CanSkipMethod : {NilMap, MapOf([n \in {"DecodeHeaders"} |-> TRUE])},
     FilterNames : {NilSlice, SliceOf(<<"oidc">>)},
     FilterWrappers : {NilSlice, SliceOf(<<"oidcFilter">>)}]

\* encoding/json writes a string coerced to valid UTF-8
CoerceUTF8(s) ==
    [i \in 1..Len(s) |-> IF s[i] = InvalidByte THEN ReplacementRune ELSE s[i]]

\* a member of the JSON object: absent, null, or a value
Absent == [present |-> FALSE, null |-> FALSE, val |-> <<>>]
JsonNull == [present |-> TRUE, null |-> TRUE, val |-> <<>>]
JsonValue(v) == [present |-> TRUE, null |-> FALSE, val |-> v]

\* a field without omitempty: null when nil, else its value
EncodeMap(f) == IF f.nil THEN JsonNull ELSE JsonValue(f.m)
EncodeSlice(f) == IF f.nil THEN JsonNull ELSE JsonValue(f.s)

\* mutation of OmitEmpty: the member is written even when the map is empty
OmitEmptyNever(f) == EncodeMap(f)

\* `json:"filters,omitempty"`: a map of length 0, nil or not, is left out
OmitEmpty(f) == IF DOMAIN f.m = {} THEN Absent ELSE EncodeMap(f)

\* the empty string Marshal returns when json.Marshal fails
NoText ==
    [ok |-> FALSE, auth |-> Absent, filters |-> Absent,
     CanSkipMethod |-> Absent, FilterNames |-> Absent,
     FilterWrappers |-> Absent]

\* consumer.go:52-56: json.Marshal(c) with its error dropped.  Unexported
\* fields and fields tagged `json:"-"` are skipped; every other exported
\* field is written under its tag or, untagged, under its Go name
Marshal(c) ==
    IF \E n \in DOMAIN c.Filters.m : ~Encodable(c.Filters.m[n])
    THEN NoText
    ELSE [ok |-> TRUE,
          auth |-> EncodeMap([nil |-> c.Auth.nil,
                              m |-> [n \in DOMAIN c.Auth.m |-> CoerceUTF8(c.Auth.m[n])]]),
          filters |-> OmitEmpty(c.Filters),
          CanSkipMethod |-> EncodeMap(c.CanSkipMethod),
          FilterNames |-> EncodeSlice(c.FilterNames),
          FilterWrappers |-> EncodeSlice(c.FilterWrappers)]

\* json.Unmarshal of one member into a map field: absent leaves the field,
\* null sets it nil, an object is merged into the map (made if nil)
DecodeMap(member, f) ==
    IF ~member.present THEN f
    ELSE IF member.null THEN NilMap
    ELSE MapOf([n \in DOMAIN f.m \cup DOMAIN member.val |->
                   IF n \in DOMAIN member.val THEN member.val[n] ELSE f.m[n]])

\* ... into a slice field: an array replaces the slice
DecodeSlice(member, f) ==
    IF ~member.present THEN f
    ELSE IF member.null THEN NilSlice
    ELSE SliceOf(member.val)

\* consumer.go:58-60: json.Unmarshal([]byte(s), c); the empty string is an
\* error and leaves c as it was
Unmarshal(s, c) ==
    IF ~s.ok
    THEN [err |-> TRUE, c |-> c]
    ELSE [err |-> FALSE,
          c |-> [Auth |-> DecodeMap(s.auth, c.Auth),
                 Filters |-> DecodeMap(s.filters, c.Filters),
                 ConsumerConfigs |-> c.ConsumerConfigs,
                 FilterConfigs |-> c.FilterConfigs,
                 CanSkipMethod |-> DecodeMap(s.CanSkipMethod, c.CanSkipMethod),
                 FilterNames |-> DecodeSlice(s.FilterNames, c.FilterNames),
                 FilterWrappers |-> DecodeSlice(s.FilterWrappers, c.FilterWrappers)]]

\* no round is under way
NoCodec ==
    [stage |-> "idle", c |-> ZeroConsumer, text |-> NoText,
     out |-> ZeroConsumer, err |-> FALSE]

----------------------------------------------------------------------------
(* ParseProtocol (part_000:43-72).  A string is the sequence of its ASCII  *)
(* codes, so that strings.ToLower has something to do.                     *)

\* the longest input string
MaxProtoLen == 4

\* h t T c p P l S
ProtoAlphabet == {104, 116, 84, 99, 112, 80, 108, 83}

ProtoStrings == UNION {[1..n -> ProtoAlphabet] : n \in 0..MaxProtoLen}

Protocols == {"HTTP", "HTTPS", "GRPC", "HTTP2", "MONGO", "TCP", "TLS",
              "Unsupported"}

\* part_000:56-64, the keys spelled in ASCII codes
ProtocolMap ==
    (<<104, 116, 116, 112>> :> "HTTP")
    @@ (<<104, 116, 116, 112, 115>> :> "HTTPS")
    @@ (<<103, 114, 112, 99>> :> "GRPC")
    @@ (<<104, 116, 116, 112, 50>> :> "HTTP2")
    @@ (<<109, 111, 110, 103, 111>> :> "MONGO")
    @@ (<<116, 99, 112>> :> "TCP")
    @@ (<<116, 108, 115>> :> "TLS")

\* mutation of ToLower: the input is looked up as it is
ToLowerMissing(s) == s

\* strings.ToLower: A..Z become a..z
ToLower(s) ==
    [i \in 1..Len(s) |-> IF s[i] \in 65..90 THEN s[i] + 32 ELSE s[i]]

ParseProtocol(s) ==
    LET key == ToLower(s)
    IN  IF key \in DOMAIN ProtocolMap THEN ProtocolMap[key] ELSE "Unsupported"

NoProto == [called |-> FALSE, s |-> <<>>, res |-> ""]

----------------------------------------------------------------------------
(* The registry-factory table and ParseConfig (part_000:88-138).           *)

RegistryNames == {"nacos", "consul"}

\* a RegistryFactory is known by its number; 0 is no factory
NoFactory == 0
Factories == {1, 2}

Stores == {"storeA", "storeB"}
Metas == {"omA", "omB"}

\* RegistryConfig values handed to Start and Reload; 0 is no config
NoConfig == 0
Configs == {1, 2}

\* raw data handed to ParseConfig: does it decode, is the result valid
RegistryData == [decodes : BOOLEAN, valid : BOOLEAN]

\* an error: its underlying cause and the registry name its text carries
NoRegErr == [cause |-> "none", name |-> ""]

\* no Registry has been created
NoInstance == [state |-> "None", config |-> NoConfig, factory |-> NoFactory]

\* what factory f returns when called with (store, om): a Registry and nil,
\* or nil and the factory's own error
FactoryResult(f, store, om, succeeds) ==
    IF succeeds
    THEN [reg |-> [state |-> "Created", config |-> NoConfig, factory |-> f],
          err |-> NoRegErr]
    ELSE [reg |-> NoInstance, err |-> [cause |-> "factory", name |-> ""]]

\* part_000:114-121
CreateRegistry(factories, name, store, om, succeeds) ==
    IF name \notin DOMAIN factories
    THEN [invoked |-> <<>>,
          ret |-> [reg |-> NoInstance,
                   err |-> [cause |-> "unknown registry", name |-> name]]]
    ELSE [invoked |-> <<[factory |-> factories[name], store |-> store, om |-> om]>>,
          ret |-> FactoryResult(factories[name], store, om, succeeds)]

\* The lifecycle of a Registry: the interface is part_000:88-95, and what
\* its methods accept is taken from the specification

\* mutation of StartAccepted: Start is taken in any state
StartAcceptedAlways(state) == TRUE

StartAccepted(state) == state \in {"Created", "Stopped"}

ReloadAccepted(state) == state = "Started"

StopAccepted(state) == state = "Started"

RegistryStart(reg, cfg) ==
    IF StartAccepted(reg.state)
    THEN [ok |-> TRUE, reg |-> [reg EXCEPT !.state = "Started", !.config = cfg]]
    ELSE [ok |-> FALSE, reg |-> reg]

RegistryReload(reg, cfg) ==
    IF ReloadAccepted(reg.state)
    THEN [ok |-> TRUE, reg |-> [reg EXCEPT !.config = cfg]]
    ELSE [ok |-> FALSE, reg |-> reg]

RegistryStop(reg) ==
    IF StopAccepted(reg.state)
    THEN [ok |-> TRUE, reg |-> [reg EXCEPT !.state = "Stopped"]]
    ELSE [ok |-> FALSE, reg |-> reg]

\* part_000:132-137: conf.Validate() and the return
ParseConfigValidate(data, steps) ==
    IF ~data.valid
    THEN [steps |-> Append(steps, "Validate"), ok |-> FALSE,
          err |-> [cause |-> "validate", name |-> ""]]
    ELSE [steps |-> Append(steps, "Validate"), ok |-> TRUE, err |-> NoRegErr]

\* mutation of ParseConfig: the result of UnmarshalJSON is not looked at
ParseConfigIgnoringDecodeResult(data) ==
    ParseConfigValidate(data, <<"Config", "UnmarshalJSON">>)

\* part_000:124-138: the calls ParseConfig makes, in order, and what it
\* returns; every error is returned as it was received
ParseConfig(data) ==
    IF ~data.decodes
    THEN [steps |-> <<"Config", "UnmarshalJSON">>, ok |-> FALSE,
          err |-> [cause |-> "unmarshal", name |-> ""]]
    ELSE ParseConfigValidate(data, <<"Config", "UnmarshalJSON">>)

NoRegistryCall ==
    [op |-> "none", name |-> "", store |-> "", om |-> "", cfg |-> NoConfig,
     succeeds |-> TRUE, data |-> [decodes |-> TRUE, valid |-> TRUE],
     invoked |-> <<>>, steps |-> <<>>, ok |-> TRUE, err |-> NoRegErr,
     ret |-> NoInstance, before |-> NoInstance]

\* factories is part_000:101; lastAdded is history: the factory handed to the
\* last AddRegistryFactory call for each name; reg is the Registry last
\* created
NoRegistry ==
    [factories |-> EmptyMap, lastAdded |-> [n \in RegistryNames |-> NoFactory],
     reg |-> NoInstance, call |-> NoRegistryCall]

----------------------------------------------------------------------------
(* Concurrent callers.  sync.Once (behind nameToOrderInit, plugins.go:102) *)
(* is a done flag and a mutex; Do(f) returns at once when the flag is set, *)
(* otherwise takes the mutex, runs f if the flag is still unset, sets the  *)
(* flag and releases the mutex.                                            *)

NoThreads == <<>>

\* mutex: the caller holding the mutex of the Once, "" when free
\* todo:  the catalog entries the running body has still to visit
\* runs:  history: how many times the body was started
NoOnce == [mutex |-> "", todo |-> {}, runs |-> 0]

\* mutation of OnceFastPath: Do also returns at once when another caller is
\* running the body
OnceFastPathNoWait(done, mutex) == done \/ mutex # ""

\* the fast path of Do: return without the mutex only when the flag is set
OnceFastPath(done, mutex) == done

----------------------------------------------------------------------------
(* Specifications                                                          *)

\* the package state before any registration
CatalogInit ==
    /\ httpPlugins = EmptyMap
    /\ filterFactories = EmptyMap
    /\ nameToOrder = EmptyMap
    /\ nameToOrderInit = FALSE
    /\ ret = NoCall
    /\ frozenPlugins = EmptyMap
    /\ lastRegistered = [n \in Names |-> NilPlugin]

\* no Marshal, ParseProtocol, registry call or concurrent caller is under way
ExtraIdle ==
    /\ codec = NoCodec
    /\ proto = NoProto
    /\ registry = NoRegistry
    /\ threads = NoThreads
    /\ once = NoOnce

\* a Consumer as constructed empty
EmptyConsumer ==
    /\ Auth = EmptyMap
    /\ Filters = EmptyMap
    /\ ConsumerConfigs = EmptyMap
    /\ FilterConfigs = EmptyMap
    /\ FilterNames = <<>>
    /\ initRet = NoInit
    /\ ExtraIdle

Init ==
    /\ CatalogInit
    /\ parseCall = NoParse
    /\ EmptyConsumer

\* the panic of a nil registration has ended the process
Panicked == ret.op = "Register" /\ ~ret.ok

\* RegisterHttpPlugin(name, plugin): panics on nil before touching any table
RegisterHttpPlugin(name, plugin) ==
    /\ ~Panicked
    /\ IF plugin = NilPlugin
       THEN /\ ret' = [NoCall EXCEPT !.op = "Register", !.a = name, !.ok = FALSE]
            /\ UNCHANGED <<httpPlugins, filterFactories, lastRegistered>>
       ELSE /\ filterFactories' = MapStore(filterFactories, name, plugin)
            /\ httpPlugins' = MapStore(httpPlugins, name, plugin)
            /\ lastRegistered' = [lastRegistered EXCEPT ![name] = plugin]
            /\ ret' = [NoCall EXCEPT !.op = "Register", !.a = name,
                                     !.plugin = plugin]
    /\ UNCHANGED <<nameToOrder, nameToOrderInit, frozenPlugins, parseCall>>
    /\ UNCHANGED consumerVars
    /\ UNCHANGED extraVars

Register == \E name \in Names, plugin \in Plugins \cup {NilPlugin} :
                RegisterHttpPlugin(name, plugin)

\* LoadHttpPlugin(name)
LoadHttpPlugin(name) ==
    /\ ~Panicked
    /\ ret' = [NoCall EXCEPT !.op = "Load", !.a = name,
                             !.plugin = LoadHttpPluginValue(httpPlugins, name)]
    /\ UNCHANGED <<httpPlugins, filterFactories, nameToOrder, nameToOrderInit,
                   frozenPlugins, lastRegistered, parseCall>>
    /\ UNCHANGED consumerVars
    /\ UNCHANGED extraVars

Load == \E name \in Names : LoadHttpPlugin(name)

\* ComparePluginOrder(a, b)
ComparePluginOrder(a, b) ==
    /\ ~Panicked
    /\ nameToOrder' = OrderAfterOnce(nameToOrderInit, nameToOrder, httpPlugins)
    /\ nameToOrderInit' = TRUE
    /\ ret' = [NoCall EXCEPT !.op = "Compare", !.a = a, !.b = b,
                  !.less = OrderLess(OrderLookup(nameToOrder', a),
                                     OrderLookup(nameToOrder', b), a, b)]
    /\ frozenPlugins' = IF nameToOrderInit THEN frozenPlugins ELSE httpPlugins
    /\ UNCHANGED <<httpPlugins, filterFactories, lastRegistered, parseCall>>
    /\ UNCHANGED consumerVars
    /\ UNCHANGED extraVars

Compare == \E a \in Names, b \in Names : ComparePluginOrder(a, b)

Next == Register \/ Load \/ Compare

Spec == Init /\ [][Next]_vars

\* Parse applied to every plugin and every kind of configuration value
ParseInit ==
    /\ CatalogInit
    /\ EmptyConsumer
    /\ \E p \in Plugins, any \in ConfigValues :
          parseCall = [NoParse EXCEPT !.plugin = p, !.any = any]

Parse ==
    /\ ~parseCall.called
    /\ LET out == PluginConfigParserParse(parseCall.any)
       IN  parseCall' = [parseCall EXCEPT !.called = TRUE, !.steps = out.steps,
                                          !.ok = out.ok, !.err = out.err]
    /\ UNCHANGED catalogVars
    /\ UNCHANGED consumerVars
    /\ UNCHANGED extraVars

ParseNext == Parse

SpecParse == ParseInit /\ [][ParseNext]_vars

\* A Consumer with its raw Auth and Filters, against any plugin catalog the
\* registrations can have built, before the first comparison or after a
\* first comparison made either before the registrations or after them.
ConsumerInit ==
    /\ httpPlugins \in MapsUpTo(Names, Plugins, Cardinality(Names))
    /\ filterFactories = httpPlugins
    /\ lastRegistered = [n \in Names |-> LoadHttpPluginValue(httpPlugins, n)]
    /\ nameToOrderInit \in BOOLEAN
    /\ frozenPlugins \in (IF nameToOrderInit THEN {EmptyMap, httpPlugins}
                                             ELSE {EmptyMap})
    /\ nameToOrder = MaterializeOrder(frozenPlugins)
    /\ ret = NoCall
    /\ parseCall = NoParse
    /\ Auth \in MapsUpTo(Names, AuthData, MaxEntries)
    /\ Filters \in MapsUpTo(Names, FilterData,
                            MaxEntries - Cardinality(DOMAIN Auth))
    /\ ConsumerConfigs = EmptyMap
    /\ FilterConfigs = EmptyMap
    /\ FilterNames = <<>>
    /\ initRet = NoInit
    /\ ExtraIdle

ConsumerNext == InitConfigsCall \/ DeriveFilterNames \/ PluginConfigCall

SpecConsumer == ConsumerInit /\ [][ConsumerNext]_vars

----------------------------------------------------------------------------
(* Specification of a Marshal / Unmarshal round: a Consumer is marshalled  *)
(* and the text is unmarshalled into an empty Consumer.                    *)

\* no Consumer is being resolved and Parse has not been called
ConsumerIdle ==
    /\ parseCall = NoParse
    /\ Auth = EmptyMap
    /\ Filters = EmptyMap
    /\ ConsumerConfigs = EmptyMap
    /\ FilterConfigs = EmptyMap
    /\ FilterNames = <<>>
    /\ initRet = NoInit

OtherIdle == CatalogInit /\ ConsumerIdle

otherVars == <<httpPlugins, filterFactories, nameToOrder, nameToOrderInit, ret,
               frozenPlugins, lastRegistered, parseCall, Auth, Filters,
               ConsumerConfigs, FilterConfigs, FilterNames, initRet>>

CodecInit ==
    /\ OtherIdle
    /\ codec \in [stage : {"new"}, c : CodecConsumers, text : {NoText},
                  out : {ZeroConsumer}, err : {FALSE}]
    /\ proto = NoProto
    /\ registry = NoRegistry
    /\ threads = NoThreads
    /\ once = NoOnce

\* s := c.Marshal()
MarshalCall ==
    /\ codec.stage = "new"
    /\ codec' = [codec EXCEPT !.stage = "marshalled", !.text = Marshal(codec.c)]
    /\ UNCHANGED <<proto, registry, threads, once>>
    /\ UNCHANGED otherVars

\* err := (&Consumer{}).Unmarshal(s)
UnmarshalCall ==
    /\ codec.stage = "marshalled"
    /\ LET r == Unmarshal(codec.text, ZeroConsumer)
       IN  codec' = [codec EXCEPT !.stage = "unmarshalled",
                                  !.out = r.c, !.err = r.err]
    /\ UNCHANGED <<proto, registry, threads, once>>
    /\ UNCHANGED otherVars

CodecNext == MarshalCall \/ UnmarshalCall

SpecCodec == CodecInit /\ [][CodecNext]_vars

----------------------------------------------------------------------------
(* Specification of ParseProtocol over every input string up to            *)
(* MaxProtoLen.                                                            *)

ProtoInit ==
    /\ OtherIdle
    /\ codec = NoCodec
    /\ proto \in [called : {FALSE}, s : ProtoStrings, res : {""}]
    /\ registry = NoRegistry
    /\ threads = NoThreads
    /\ once = NoOnce

ParseProtocolCall ==
    /\ ~proto.called
    /\ proto' = [proto EXCEPT !.called = TRUE, !.res = ParseProtocol(proto.s)]
    /\ UNCHANGED <<codec, registry, threads, once>>
    /\ UNCHANGED otherVars

ProtoNext == ParseProtocolCall

SpecProtocol == ProtoInit /\ [][ProtoNext]_vars

----------------------------------------------------------------------------
(* Specification of the registry-factory table, of one Registry and of     *)
(* ParseConfig, called one after another.                                  *)

RegistryInit ==
    /\ OtherIdle
    /\ codec = NoCodec
    /\ proto = NoProto
    /\ registry = NoRegistry
    /\ threads = NoThreads
    /\ once = NoOnce

\* part_000:105-111
AddRegistryFactory(name, factory) ==
    /\ registry' = [registry EXCEPT
                       !.factories = MapStore(@, name, factory),
                       !.lastAdded[name] = factory,
                       !.call = [NoRegistryCall EXCEPT
                                    !.op = "AddRegistryFactory",
                                    !.name = name,
                                    !.before = registry.reg]]
    /\ UNCHANGED <<codec, proto, threads, once>>
    /\ UNCHANGED otherVars

AddFactory == \E name \in RegistryNames, factory \in Factories :
                  AddRegistryFactory(name, factory)

\* part_000:114-121; whether the factory succeeds is the factory's business
CreateRegistryCall(name, store, om, succeeds) ==
    LET r == CreateRegistry(registry.factories, name, store, om, succeeds)
        ok == r.ret.err = NoRegErr
    IN  /\ registry' = [registry EXCEPT
                           !.reg = IF ok THEN r.ret.reg ELSE @,
                           !.call = [NoRegistryCall EXCEPT
                                        !.op = "CreateRegistry",
                                        !.name = name,
                                        !.store = store,
                                        !.om = om,
                                        !.succeeds = succeeds,
                                        !.invoked = r.invoked,
                                        !.ok = ok,
                                        !.err = r.ret.err,
                                        !.ret = r.ret.reg,
                                        !.before = registry.reg]]
        /\ UNCHANGED <<codec, proto, threads, once>>
        /\ UNCHANGED otherVars

Create == \E name \in RegistryNames, store \in Stores, om \in Metas,
             succeeds \in BOOLEAN :
              CreateRegistryCall(name, store, om, succeeds)

\* a call of a lifecycle method on the Registry last created
LifecycleCall(op, cfg, r) ==
    /\ registry.reg.state # "None"
    /\ registry' = [registry EXCEPT
                       !.reg = r.reg,
                       !.call = [NoRegistryCall EXCEPT
                                    !.op = op,
                                    !.cfg = cfg,
                                    !.ok = r.ok,
                                    !.before = registry.reg]]
    /\ UNCHANGED <<codec, proto, threads, once>>
    /\ UNCHANGED otherVars

\* part_000:89
Start == \E cfg \in Configs :
             LifecycleCall("Start", cfg, RegistryStart(registry.reg, cfg))

\* part_000:92
Reload == \E cfg \in Configs :
              LifecycleCall("Reload", cfg, RegistryReload(registry.reg, cfg))

\* part_000:90
Stop == LifecycleCall("Stop", NoConfig, RegistryStop(registry.reg))

\* part_000:124-138, on the Registry last created
ParseConfigCall(data) ==
    LET r == ParseConfig(data)
    IN  /\ registry.reg.state # "None"
        /\ registry' = [registry EXCEPT
                           !.call = [NoRegistryCall EXCEPT
                                        !.op = "ParseConfig",
                                        !.data = data,
                                        !.steps = r.steps,
                                        !.ok = r.ok,
                                        !.err = r.err,
                                        !.before = registry.reg]]
        /\ UNCHANGED <<codec, proto, threads, once>>
        /\ UNCHANGED otherVars

ParseRegistryConfig == \E data \in RegistryData : ParseConfigCall(data)

RegistryNext ==
    AddFactory \/ Create \/ Start \/ Reload \/ Stop \/ ParseRegistryConfig

SpecRegistry == RegistryInit /\ [][RegistryNext]_vars

----------------------------------------------------------------------------
(* Specification of concurrent first calls of ComparePluginOrder           *)
(* (plugins.go:106-123) against a catalog that registration has filled.    *)

Callers == {"c1", "c2"}

\* the arguments the callers pass
ComparePairs == {<<"oidc", "basic-auth">>, <<"basic-auth", "rate-limit">>}

OnceInit ==
    /\ httpPlugins \in MapsUpTo(Names, Plugins, Cardinality(Names))
    /\ filterFactories = httpPlugins
    /\ lastRegistered = [n \in Names |-> LoadHttpPluginValue(httpPlugins, n)]
    /\ nameToOrder = EmptyMap
    /\ nameToOrderInit = FALSE
    /\ frozenPlugins = EmptyMap
    /\ ret = NoCall
    /\ ConsumerIdle
    /\ codec = NoCodec
    /\ proto = NoProto
    /\ registry = NoRegistry
    /\ threads \in [Callers -> [pc : {"call"}, args : ComparePairs,
                                slow : {FALSE}, seen : {EmptyMap},
                                less : {FALSE}]]
    /\ once = NoOnce

onceFrame ==
    <<httpPlugins, filterFactories, lastRegistered, frozenPlugins, ret,
      parseCall, Auth, Filters, ConsumerConfigs, FilterConfigs, FilterNames,
      initRet, codec, proto, registry>>

\* plugins.go:107, Do: the check of the flag
OnceDo(t) ==
    /\ threads[t].pc = "call"
    /\ IF OnceFastPath(nameToOrderInit, once.mutex)
       THEN threads' = [threads EXCEPT ![t].pc = "lookup"]
       ELSE threads' = [threads EXCEPT ![t].pc = "doSlow", ![t].slow = TRUE]
    /\ UNCHANGED <<nameToOrder, nameToOrderInit, once>>
    /\ UNCHANGED onceFrame

\* Do: take the mutex and look at the flag again; start the body when it is
\* still unset
OnceLock(t) ==
    /\ threads[t].pc = "doSlow"
    /\ once.mutex = ""
    /\ IF nameToOrderInit
       THEN /\ threads' = [threads EXCEPT ![t].pc = "lookup"]
            /\ UNCHANGED once
       ELSE /\ threads' = [threads EXCEPT ![t].pc = "body"]
            /\ once' = [mutex |-> t, todo |-> DOMAIN httpPlugins,
                        runs |-> once.runs + 1]
    /\ UNCHANGED <<nameToOrder, nameToOrderInit>>
    /\ UNCHANGED onceFrame

\* plugins.go:108-111: one visit of IterateHttpPlugin, in any order
OnceBodyVisit(t) ==
    /\ threads[t].pc = "body"
    /\ \E key \in once.todo :
        /\ nameToOrder' = MapStore(nameToOrder, key, PluginOrderOf[httpPlugins[key]])
        /\ once' = [once EXCEPT !.todo = @ \ {key}]
    /\ UNCHANGED <<threads, nameToOrderInit>>
    /\ UNCHANGED onceFrame

\* the body has returned: Do sets the flag and releases the mutex
OnceBodyDone(t) ==
    /\ threads[t].pc = "body"
    /\ once.todo = {}
    /\ nameToOrderInit' = TRUE
    /\ once' = [once EXCEPT !.mutex = ""]
    /\ threads' = [threads EXCEPT ![t].pc = "lookup"]
    /\ UNCHANGED nameToOrder
    /\ UNCHANGED onceFrame

\* plugins.go:114-122: the lookups in nameToOrder and the comparison
CompareLookup(t) ==
    /\ threads[t].pc = "lookup"
    /\ LET a == threads[t].args[1]
           b == threads[t].args[2]
       IN  threads' = [threads EXCEPT
                          ![t].pc = "returned",
                          ![t].seen = nameToOrder,
                          ![t].less = OrderLess(OrderLookup(nameToOrder, a),
                                                OrderLookup(nameToOrder, b), a, b)]
    /\ UNCHANGED <<nameToOrder, nameToOrderInit, once>>
    /\ UNCHANGED onceFrame

OnceNext ==
    \E t \in Callers :
        \/ OnceDo(t)
        \/ OnceLock(t)
        \/ OnceBodyVisit(t)
        \/ OnceBodyDone(t)
        \/ CompareLookup(t)

SpecOnce == OnceInit /\ [][OnceNext]_vars

----------------------------------------------------------------------------
(* Specification of concurrent RegisterHttpPlugin calls                    *)
(* (plugins.go:19-30): each call first stores into the filter-manager      *)
(* table and then into httpPlugins, and holds no lock across the two.      *)

Registrars == {"r1", "r2"}

RegisterRaceInit ==
    /\ OtherIdle
    /\ codec = NoCodec
    /\ proto = NoProto
    /\ registry = NoRegistry
    /\ threads \in [Registrars -> [pc : {"call"}, name : Names,
                                   plugin : Plugins]]
    /\ once = NoOnce

registerFrame ==
    <<nameToOrder, nameToOrderInit, ret, frozenPlugins, parseCall, Auth,
      Filters, ConsumerConfigs, FilterConfigs, FilterNames, initRet, codec,
      proto, registry, once>>

\* plugins.go:25-27
RegisterFilterFactory(t) ==
    /\ threads[t].pc = "call"
    /\ filterFactories' = MapStore(filterFactories, threads[t].name,
                                   threads[t].plugin)
    /\ threads' = [threads EXCEPT ![t].pc = "registered"]
    /\ UNCHANGED <<httpPlugins, lastRegistered>>
    /\ UNCHANGED registerFrame

\* plugins.go:29
RegisterStore(t) ==
    /\ threads[t].pc = "registered"
    /\ httpPlugins' = MapStore(httpPlugins, threads[t].name, threads[t].plugin)
    /\ lastRegistered' = [lastRegistered EXCEPT ![threads[t].name] = threads[t].plugin]
    /\ threads' = [threads EXCEPT ![t].pc = "returned"]
    /\ UNCHANGED filterFactories
    /\ UNCHANGED registerFrame

RegisterRaceNext ==
    \E t \in Registrars : RegisterFilterFactory(t) \/ RegisterStore(t)

SpecRegisterRace == RegisterRaceInit /\ [][RegisterRaceNext]_vars

----------------------------------------------------------------------------
(* Specification of concurrent AddRegistryFactory and CreateRegistry calls *)
(* (part_000:100-121).  registryFactories is a plain Go map and neither    *)
(* function takes a lock, so an access to the map is an interval that      *)
(* nothing keeps apart from another caller's.  When a write overlaps       *)
(* another access the Go runtime may end the process ("concurrent map      *)
(* writes") or let both go on.                                             *)

Accessors == {"a1", "a2"}

TableOps == {"AddRegistryFactory", "CreateRegistry"}

FactoryRaceInit ==
    /\ OtherIdle
    /\ codec = NoCodec
    /\ proto = NoProto
    /\ registry = NoRegistry
    /\ threads \in [Accessors -> [pc : {"call"}, op : TableOps,
                                  name : RegistryNames, factory : Factories,
                                  raced : {FALSE}, found : {FALSE}]]
    /\ once = NoOnce

Writes(t) == threads[t].op = "AddRegistryFactory"

InTable(t) == threads[t].pc = "inTable"

\* the runtime has ended the process
Crashed == \E t \in Accessors : threads[t].pc = "crashed"

\* part_000:110 and part_000:115: the access to registryFactories begins
TableAccessBegin(t) ==
    /\ ~Crashed
    /\ threads[t].pc = "call"
    /\ LET overlaps(u) == u # t /\ InTable(u) /\ (Writes(u) \/ Writes(t))
       IN  threads' = [u \in Accessors |->
                          IF u = t
                          THEN [threads[u] EXCEPT
                                   !.pc = "inTable",
                                   !.raced = \E v \in Accessors : overlaps(v)]
                          ELSE IF overlaps(u)
                               THEN [threads[u] EXCEPT !.raced = TRUE]
                               ELSE threads[u]]
    /\ UNCHANGED <<codec, proto, registry, once>>
    /\ UNCHANGED otherVars

\* ... and ends: the write or the lookup has been done
TableAccessEnd(t) ==
    /\ ~Crashed
    /\ InTable(t)
    /\ threads' = [threads EXCEPT
                      ![t].pc = "returned",
                      ![t].found = threads[t].name \in DOMAIN registry.factories]
    /\ IF Writes(t)
       THEN registry' = [registry EXCEPT
                            !.factories = MapStore(@, threads[t].name,
                                                   threads[t].factory),
                            !.lastAdded[threads[t].name] = threads[t].factory]
       ELSE UNCHANGED registry
    /\ UNCHANGED <<codec, proto, once>>
    /\ UNCHANGED otherVars

\* the runtime detects the unsynchronized access and throws
TableAccessFatal(t) ==
    /\ ~Crashed
    /\ InTable(t)
    /\ threads[t].raced
    /\ threads' = [threads EXCEPT ![t].pc = "crashed"]
    /\ UNCHANGED <<codec, proto, registry, once>>
    /\ UNCHANGED otherVars

FactoryRaceNext ==
    \E t \in Accessors :
        TableAccessBegin(t) \/ TableAccessEnd(t) \/ TableAccessFatal(t)

SpecFactoryRace == FactoryRaceInit /\ [][FactoryRaceNext]_vars

----------------------------------------------------------------------------
(* Reference definitions used to state the properties                      *)

\* s is lexicographically before t: at the first index where they differ
\* (or where s has ended) s is the smaller
RefBytesBefore(s, t) ==
    \E i \in 1..Len(t) :
        /\ i - 1 <= Len(s)
        /\ \A j \in 1..(i - 1) : s[j] = t[j]
        /\ (i > Len(s) \/ s[i] < t[i])

\* lexicographic less-than on triples <<Position, Operation, name>>
RefTripleLess(x, y) ==
    \/ x[1] < y[1]
    \/ x[1] = y[1] /\ x[2] < y[2]
    \/ x[1] = y[1] /\ x[2] = y[2] /\ RefBytesBefore(NameBytes[x[3]], NameBytes[y[3]])

\* the triple a name has under a catalog m (zero order when not registered)
DeclaredTriple(m, n) ==
    IF n \in DOMAIN m
    THEN <<PluginOrderOf[m[n]].Position, PluginOrderOf[m[n]].Operation, n>>
    ELSE <<0, 0, n>>

Registered == DOMAIN httpPlugins

----------------------------------------------------------------------------
(* C1: after any sequence of RegisterHttpPlugin calls, ComparePluginOrder  *)
(* is a strict total order on the registered names: for distinct a, b      *)
(* exactly one of Compare(a,b), Compare(b,a) is true, Compare(a,a) is      *)
(* false, and the relation is transitive.                                  *)
C1_StrictTotalOrder ==
    /\ \A a \in Registered : ~ComparePluginOrderValue(a, a)
    /\ \A a, b \in Registered :
          a # b => (ComparePluginOrderValue(a, b) # ComparePluginOrderValue(b, a))
    /\ \A a, b, c \in Registered :
          ComparePluginOrderValue(a, b) /\ ComparePluginOrderValue(b, c)
             => ComparePluginOrderValue(a, c)
    /\ (ret.op = "Compare" /\ ret.a = ret.b) => ~ret.less

\* three names are registered, two of them with the same order in the
\* snapshot, and a comparison of those two has returned true
C1_Witness ==
    /\ Cardinality(Registered) = 3
    /\ ret.op = "Compare" /\ ret.a # ret.b /\ ret.less
    /\ ret.a \in DOMAIN nameToOrder /\ ret.b \in DOMAIN nameToOrder
    /\ nameToOrder[ret.a] = nameToOrder[ret.b]

(* C2: the name-to-order snapshot is materialized by the first             *)
(* ComparePluginOrder call and never changes afterwards: once it exists,   *)
(* no step (registration of a new name or override) changes the snapshot   *)
(* or the result of ComparePluginOrder for any pair, and every returned     *)
(* result is the one the frozen snapshot gives.                            *)
C2_SnapshotFrozen ==
    [][ /\ (~nameToOrderInit /\ nameToOrderInit')
            => (ret'.op = "Compare" /\ nameToOrder' = MaterializeOrder(httpPlugins))
        /\ nameToOrderInit
            => /\ nameToOrderInit'
               /\ nameToOrder' = nameToOrder
               /\ \/ httpPlugins' = httpPlugins
                  \/ \A a, b \in Names :
                        ComparePluginOrderValue(a, b)' = ComparePluginOrderValue(a, b)
        /\ ret'.op = "Compare"
            => ret'.less = CompareValueIn(nameToOrderInit', nameToOrder',
                                          httpPlugins', ret'.a, ret'.b)
        /\ (ret.op = "Compare" /\ ret'.op = "Compare"
               /\ ret'.a = ret.a /\ ret'.b = ret.b) => ret'.less = ret.less
      ]_vars

\* a comparison has returned after a later override changed the declared
\* orders: the result follows the snapshot, not the current catalog
C2_Witness ==
    /\ nameToOrderInit
    /\ ret.op = "Compare"
    /\ ret.a \in DOMAIN frozenPlugins /\ ret.b \in DOMAIN frozenPlugins
    /\ httpPlugins[ret.a] # frozenPlugins[ret.a]
    /\ ret.less # RefTripleLess(DeclaredTriple(httpPlugins, ret.a),
                                DeclaredTriple(httpPlugins, ret.b))

(* C3 (as claimed): the result of ComparePluginOrder is a function only of *)
(* the currently registered plugins' declared (Position, Operation, Name), *)
(* whatever the order of registrations and comparisons.  An execution that *)
(* registers first and compares afterwards returns the lexicographic order *)
(* of the declared triples, so every execution ending with the same        *)
(* catalog would have to return that same order.                           *)
C3_FunctionOfCurrentPlugins ==
    \A a, b \in Names :
        ComparePluginOrderValue(a, b)
            = RefTripleLess(DeclaredTriple(httpPlugins, a),
                            DeclaredTriple(httpPlugins, b))

(* C3 (amended): the result of ComparePluginOrder is a function only of    *)
(* the plugins registered when the first comparison is made (the current   *)
(* catalog while no comparison has been made), whatever the order in which *)
(* those registrations were performed.                                     *)
C3_FunctionOfFrozenPlugins ==
    LET m == IF nameToOrderInit THEN frozenPlugins ELSE httpPlugins
    IN  /\ \A a, b \in Names :
              ComparePluginOrderValue(a, b)
                  = RefTripleLess(DeclaredTriple(m, a), DeclaredTriple(m, b))
        /\ ret.op = "Compare"
              => ret.less = RefTripleLess(DeclaredTriple(frozenPlugins, ret.a),
                                          DeclaredTriple(frozenPlugins, ret.b))

\* two names were registered before the first comparison, a third one
\* after it, and a comparison involving the late one has returned
C3_Witness ==
    /\ nameToOrderInit
    /\ Cardinality(DOMAIN frozenPlugins) = 2
    /\ Cardinality(Registered) = 3
    /\ ret.op = "Compare"
    /\ ret.a \in Registered \ DOMAIN frozenPlugins
    /\ ret.b \in DOMAIN frozenPlugins

(* C4: for plugins a and b present in the order snapshot,                  *)
(* ComparePluginOrder(a, b) is the lexicographic less-than on the triples  *)
(* (Position, Operation, name): Position first, Operation only on equal    *)
(* Positions, the name on equal (Position, Operation).                     *)
C4_LexicographicOnSnapshot ==
    /\ nameToOrderInit =>
          \A a, b \in DOMAIN nameToOrder :
              ComparePluginOrderValue(a, b)
                  = RefTripleLess(
                        <<nameToOrder[a].Position, nameToOrder[a].Operation, a>>,
                        <<nameToOrder[b].Position, nameToOrder[b].Operation, b>>)
    /\ (ret.op = "Compare" /\ ret.a \in DOMAIN nameToOrder
                           /\ ret.b \in DOMAIN nameToOrder)
          => ret.less = RefTripleLess(
                 <<nameToOrder[ret.a].Position, nameToOrder[ret.a].Operation, ret.a>>,
                 <<nameToOrder[ret.b].Position, nameToOrder[ret.b].Operation, ret.b>>)

\* the snapshot holds a smaller Position with a larger Operation next to a
\* larger Position with a smaller Operation, and comparing them returned
\* true by Position
C4_Witness ==
    /\ ret.op = "Compare" /\ ret.less
    /\ ret.a \in DOMAIN nameToOrder /\ ret.b \in DOMAIN nameToOrder
    /\ nameToOrder[ret.a].Position < nameToOrder[ret.b].Position
    /\ nameToOrder[ret.a].Operation > nameToOrder[ret.b].Operation
    /\ \E c \in DOMAIN nameToOrder : c # ret.a /\ nameToOrder[c] = nameToOrder[ret.a]

(* C5: LoadHttpPlugin(name) returns the plugin of the most recent non-nil  *)
(* registration under that name and nil for a name never registered;       *)
(* registering nil panics and changes neither the plugin catalog nor the   *)
(* filter factory/parser table.                                            *)
C5_LastWriterWins ==
    [][ /\ \A n \in Names :
              LoadHttpPluginValue(httpPlugins', n) = lastRegistered'[n]
        /\ ret'.op = "Load" => ret'.plugin = lastRegistered'[ret'.a]
        /\ (ret'.op = "Register" /\ ~ret'.ok)
              => /\ httpPlugins' = httpPlugins
                 /\ filterFactories' = filterFactories
        /\ (ret'.op = "Register" /\ ret'.ok)
              => /\ ret'.plugin # NilPlugin
                 /\ LoadHttpPluginValue(httpPlugins', ret'.a) = ret'.plugin
      ]_vars

\* a name was registered, later overridden by another plugin, and a load of
\* it returned the overriding plugin while another name is still unregistered
C5_Witness ==
    /\ ret.op = "Load" /\ ret.plugin # NilPlugin
    /\ nameToOrderInit /\ ret.a \in DOMAIN frozenPlugins
    /\ frozenPlugins[ret.a] # ret.plugin
    /\ \E n \in Names : n \notin Registered

(* C6: Parse runs decode, Validate, Init strictly in that order and stops  *)
(* at the first failure: Validate never runs after a failed decode, Init   *)
(* never runs after a failed Validate, and a configuration object is       *)
(* returned only if every executed step succeeded; with an absent value    *)
(* decode is skipped but Validate and Init still run on the empty object.  *)
C6_FailFastPipeline ==
    parseCall.called =>
        LET any == parseCall.any
            steps == parseCall.steps
            Ran(x) == \E i \in 1..Len(steps) : steps[i] = x
            Before(x, y) == \A i, j \in 1..Len(steps) :
                               (steps[i] = x /\ steps[j] = y) => i < j
            decoded == Ran("Marshal") /\ any.marshals /\ Ran("Unmarshal") /\ any.decodes
        IN  /\ \A i, j \in 1..Len(steps) : steps[i] = steps[j] => i = j
            /\ Before("Marshal", "Unmarshal") /\ Before("Unmarshal", "Validate")
            /\ Before("Marshal", "Validate") /\ Before("Validate", "Init")
            /\ Ran("Unmarshal") => (Ran("Marshal") /\ any.marshals)
            /\ Ran("Validate") => (any.present => decoded)
            /\ Ran("Init") => (Ran("Validate") /\ any.valid)
            /\ parseCall.ok <=> /\ Ran("Validate") /\ any.valid
                                /\ Ran("Init") /\ any.inits
                                /\ any.present => decoded
            /\ parseCall.ok <=> parseCall.err = "none"
            /\ ~any.present => /\ ~Ran("Marshal") /\ ~Ran("Unmarshal")
                               /\ Ran("Validate")
                               /\ any.valid => Ran("Init")
            /\ (any.present /\ any.marshals /\ any.decodes) => Ran("Validate")
            /\ (Ran("Validate") /\ any.valid) => Ran("Init")

\* a present value decoded, failed validation, and Parse returned the
\* validation error without running Init
C6_Witness ==
    /\ parseCall.called
    /\ parseCall.any.present /\ parseCall.any.inits
    /\ parseCall.steps = <<"Config", "Marshal", "Unmarshal", "Validate">>
    /\ ~parseCall.ok /\ parseCall.err = "validate"

----------------------------------------------------------------------------
(* Reference definitions for the Consumer properties                       *)

\* the name has a registered plugin with the consumer-authentication capability
ConsumerCapable(n) ==
    /\ n \in Registered
    /\ IsConsumerPlugin[httpPlugins[n]]

\* the Auth entry resolves: capable plugin, blob decodes and validates
AuthResolves(n) ==
    ConsumerCapable(n) /\ Auth[n].decodes /\ Auth[n].valid

\* the Filters entry resolves: registered plugin, configuration parses
FilterResolves(n) ==
    /\ n \in Registered
    /\ (Filters[n].present => (Filters[n].marshals /\ Filters[n].decodes))
    /\ Filters[n].valid /\ Filters[n].inits

\* some name of Auth or Filters has no registered plugin
SomeNameUnregistered ==
    \E n \in (DOMAIN Auth) \cup (DOMAIN Filters) : n \notin Registered

InitFailed == initRet.called /\ initRet.err.kind # "none"

InitSucceeded == initRet.called /\ initRet.err.kind = "none"

AuthErrors == {"not_consumer", "unmarshal", "validate"}

FilterErrors == {"not_found", "parse"}

\* the triple a name has in the order snapshot (zero order when missing)
SnapshotTriple(n) ==
    <<OrderLookup(nameToOrder, n).Position, OrderLookup(nameToOrder, n).Operation, n>>

(* C7: InitConfigs on a Consumer whose Filters contains a name that is not *)
(* registered returns an error, and after the call FilterConfigs has no    *)
(* entry for that name.                                                    *)
C7_UnregisteredFilterFails ==
    \A n \in DOMAIN Filters :
        n \notin Registered =>
            /\ n \notin DOMAIN FilterConfigs
            /\ initRet.called => initRet.err.kind # "none"

\* Auth resolved, one filter was parsed and stored, and InitConfigs then
\* failed on an unregistered filter name
C7_Witness ==
    /\ InitFailed
    /\ initRet.err.kind = "not_found"
    /\ initRet.err.name \in DOMAIN Filters
    /\ initRet.err.name \notin Registered
    /\ DOMAIN FilterConfigs # {}
    /\ DOMAIN ConsumerConfigs = DOMAIN Auth

(* C8 (as claimed): if any name in Auth or Filters does not resolve to a   *)
(* registered plugin, InitConfigs fails atomically: it returns an error    *)
(* and ConsumerConfigs and FilterConfigs contain no entries produced by    *)
(* the failed pass.                                                        *)
C8_FailsAtomically ==
    (initRet.called /\ SomeNameUnregistered)
        => /\ initRet.err.kind # "none"
           /\ DOMAIN ConsumerConfigs = {}
           /\ DOMAIN FilterConfigs = {}

(* C8 (amended): if any name in Auth or Filters does not resolve to a      *)
(* registered plugin, InitConfigs returns an error, and the Consumer keeps *)
(* what the pass resolved before the failure: ConsumerConfigs holds only   *)
(* Auth entries that resolved (all of them when the failure is in          *)
(* Filters), FilterConfigs is left untouched when the failure is in Auth   *)
(* and otherwise holds only Filters entries that resolved; the map being   *)
(* filled gets no entry for the failing name, and neither map has one for  *)
(* an unregistered name.                                                   *)
C8_FailureKeepsResolvedEntries ==
    [][ (initRet'.called /\ SomeNameUnregistered
           /\ <<ConsumerConfigs, FilterConfigs, initRet>>'
                 # <<ConsumerConfigs, FilterConfigs, initRet>>)
        => /\ initRet'.err.kind # "none"
           /\ \A n \in DOMAIN ConsumerConfigs' : n \in DOMAIN Auth /\ AuthResolves(n)
           /\ \A n \in DOMAIN FilterConfigs' : n \in DOMAIN Filters /\ FilterResolves(n)
           /\ initRet'.err.kind \in AuthErrors
                 => /\ FilterConfigs' = FilterConfigs
                    /\ initRet'.err.name \notin DOMAIN ConsumerConfigs'
                    /\ initRet'.err.name \in DOMAIN Auth
                    /\ ~AuthResolves(initRet'.err.name)
           /\ initRet'.err.kind \in FilterErrors
                 => /\ DOMAIN ConsumerConfigs' = DOMAIN Auth
                    /\ initRet'.err.name \in DOMAIN Filters
                    /\ ~FilterResolves(initRet'.err.name)
                    /\ initRet'.err.name \notin DOMAIN FilterConfigs'
      ]_vars

\* InitConfigs failed on an unregistered Auth name after it had stored the
\* credential config of another Auth name
C8_Witness ==
    /\ InitFailed
    /\ initRet.err.kind = "not_consumer"
    /\ initRet.err.name \notin Registered
    /\ DOMAIN ConsumerConfigs # {}

(* C9: for every name in Auth, InitConfigs requires the registered plugin  *)
(* to have the consumer-authentication capability: an unregistered name or *)
(* a plugin without it makes InitConfigs fail, with the not-a-consumer-    *)
(* plugin error for that name and before anything is decoded for it;       *)
(* otherwise the blob is decoded, then validated, never initialized, and   *)
(* stored under ConsumerConfigs[name]; after a successful InitConfigs the  *)
(* keys of ConsumerConfigs are the keys of Auth and PluginConfig(name) is  *)
(* non-nil exactly for those names.                                        *)
C9_AuthNeedsConsumerPlugin ==
    /\ initRet.called =>
          /\ \A n \in DOMAIN Auth : ~ConsumerCapable(n) => InitFailed
          /\ initRet.err.kind = "not_consumer"
                => /\ initRet.err.name \in DOMAIN Auth
                   /\ ~ConsumerCapable(initRet.err.name)
                   /\ initRet.err.steps = <<>>
          /\ initRet.err.kind \in {"unmarshal", "validate"}
                => /\ initRet.err.name \in DOMAIN Auth
                   /\ ConsumerCapable(initRet.err.name)
          /\ initRet.err.kind = "unmarshal"
                => /\ ~Auth[initRet.err.name].decodes
                   /\ initRet.err.steps = <<"ConsumerConfig", "Unmarshal">>
          /\ initRet.err.kind = "validate"
                => /\ Auth[initRet.err.name].decodes
                   /\ ~Auth[initRet.err.name].valid
                   /\ initRet.err.steps = <<"ConsumerConfig", "Unmarshal", "Validate">>
    /\ \A n \in DOMAIN ConsumerConfigs :
          /\ n \in DOMAIN Auth
          /\ ConsumerCapable(n)
          /\ ConsumerConfigs[n].plugin = httpPlugins[n]
          /\ ConsumerConfigs[n].data = Auth[n]
          /\ Auth[n].decodes /\ Auth[n].valid
          /\ ConsumerConfigs[n].steps = <<"ConsumerConfig", "Unmarshal", "Validate">>
    /\ InitSucceeded =>
          /\ DOMAIN ConsumerConfigs = DOMAIN Auth
          /\ \A n \in Names : PluginConfigNonNil(n) <=> n \in DOMAIN Auth
          /\ ret.op = "PluginConfig" => (ret.ok <=> ret.a \in DOMAIN Auth)

\* InitConfigs succeeded with two Auth entries, and PluginConfig of a name
\* outside Auth returned nil
C9_Witness ==
    /\ InitSucceeded
    /\ Cardinality(DOMAIN Auth) = 2
    /\ ret.op = "PluginConfig" /\ ~ret.ok

----------------------------------------------------------------------------
(* Reference definitions for the Marshal / Unmarshal properties            *)

RoundDone == codec.stage = "unmarshalled"

ValidUTF8(s) == \A i \in 1..Len(s) : s[i] # InvalidByte

\* every credential string of c is valid UTF-8 and json can encode every
\* filter config of c
Transportable(c) ==
    /\ \A n \in DOMAIN c.Auth.m : ValidUTF8(c.Auth.m[n])
    /\ \A n \in DOMAIN c.Filters.m : Encodable(c.Filters.m[n])

\* c with every field but Auth and Filters cleared
RawOnly(c) == [ZeroConsumer EXCEPT !.Auth = c.Auth, !.Filters = c.Filters]

----------------------------------------------------------------------------
----------------------------------------------------------------------------
(* C12: the serialized form contains only the raw auth and filters: every  *)
(* derived field (ConsumerConfigs, FilterConfigs, CanSkipMethod,           *)
(* FilterNames, FilterWrappers) is excluded, so two Consumers with equal   *)
(* Auth and Filters but different derived fields marshal to the same text, *)
(* and Unmarshal never sets a derived field.                               *)
C12_DerivedFieldsExcluded ==
    /\ (codec.stage \in {"marshalled", "unmarshalled"} /\ codec.text.ok)
        => /\ ~codec.text.CanSkipMethod.present
           /\ ~codec.text.FilterNames.present
           /\ ~codec.text.FilterWrappers.present
           /\ codec.text = Marshal(RawOnly(codec.c))
    /\ RoundDone
        => /\ codec.out.ConsumerConfigs = NilMap
           /\ codec.out.FilterConfigs = NilMap
           /\ codec.out.CanSkipMethod = NilMap
           /\ codec.out.FilterNames = NilSlice
           /\ codec.out.FilterWrappers = NilSlice

----------------------------------------------------------------------------
(* C13: every failure returned by InitConfigs, PluginConfigParser.Parse,   *)
(* CreateRegistry and registry ParseConfig is returned immediately,        *)
(* without retry, as an error that carries both the name of the offending  *)
(* plugin or registry and the underlying cause.  Stated here for the       *)
(* errors CreateRegistry makes itself and for those ParseConfig returns.   *)
C13_ErrorsCarryNameAndCause ==
    LET call == registry.call
    IN  /\ (call.op = "CreateRegistry" /\ ~call.ok /\ call.invoked = <<>>)
            => call.err.cause # "none" /\ call.err.name = call.name
        /\ (call.op = "ParseConfig" /\ ~call.ok)
            => call.err.cause # "none" /\ call.err.name # ""

----------------------------------------------------------------------------
(* Reference definition for ParseProtocol: s equals the lower-case literal *)
(* lit when the case of letters is disregarded                             *)
EqualNoCase(s, lit) ==
    /\ Len(s) = Len(lit)
    /\ \A i \in 1..Len(lit) :
        \/ s[i] = lit[i]
        \/ lit[i] \in 97..122 /\ s[i] = lit[i] - 32

(* C14: ParseProtocol is total and case-insensitive: for every input       *)
(* string it returns the protocol whose literal equals the input compared  *)
(* without regard to letter case, and Unsupported for every other input.   *)
C14_ParseProtocolCaseInsensitive ==
    proto.called
        => /\ proto.res \in Protocols
           /\ \A lit \in DOMAIN ProtocolMap :
                EqualNoCase(proto.s, lit) => proto.res = ProtocolMap[lit]
           /\ (\A lit \in DOMAIN ProtocolMap : ~EqualNoCase(proto.s, lit))
                => proto.res = "Unsupported"

C14_Witness ==
    /\ proto.called
    /\ proto.res = "HTTP"
    /\ proto.s # <<104, 116, 116, 112>>

----------------------------------------------------------------------------
(* C15: after any sequence of AddRegistryFactory calls, CreateRegistry     *)
(* with a name never added returns an unknown-registry error without       *)
(* invoking any factory, and with an added name invokes exactly once the   *)
(* factory most recently added under that name, with the given store and   *)
(* metadata, and returns its result.                                       *)
C15_CreateUsesLastAddedFactory ==
    LET call == registry.call
        last == registry.lastAdded[call.name]
    IN  call.op = "CreateRegistry"
            => IF last = NoFactory
               THEN /\ call.invoked = <<>>
                    /\ ~call.ok
                    /\ call.err.cause = "unknown registry"
                    /\ call.ret = NoInstance
               ELSE /\ call.invoked = <<[factory |-> last, store |-> call.store,
                                         om |-> call.om]>>
                    /\ [reg |-> call.ret, err |-> call.err]
                         = FactoryResult(last, call.store, call.om, call.succeeds)

C15_Witness ==
    /\ registry.call.op = "CreateRegistry"
    /\ registry.call.ok
    /\ registry.call.ret.factory = 2
    /\ registry.call.store = "storeB"
    /\ DOMAIN registry.factories = RegistryNames

----------------------------------------------------------------------------
(* C16: every Registry follows Created -Start-> Started -Reload-> Started  *)
(* -Stop-> Stopped: Reload on a started Registry succeeds and leaves it    *)
(* started, Reload before any Start is rejected, and Start on a started    *)
(* Registry is rejected; a rejected call leaves the Registry as it was.    *)
C16_RegistryLifecycle ==
    LET call == registry.call
        reg == registry.reg
    IN  /\ call.op = "Start"
            => /\ call.ok <=> call.before.state \in {"Created", "Stopped"}
               /\ call.ok => reg.state = "Started" /\ reg.config = call.cfg
               /\ ~call.ok => reg = call.before
        /\ call.op = "Reload"
            => /\ call.ok <=> call.before.state = "Started"
               /\ call.ok => reg.state = "Started" /\ reg.config = call.cfg
               /\ ~call.ok => reg = call.before
        /\ call.op = "Stop"
            => /\ call.ok <=> call.before.state = "Started"
               /\ call.ok => reg.state = "Stopped"
               /\ ~call.ok => reg = call.before

C16_Witness ==
    /\ registry.call.op = "Reload"
    /\ registry.call.ok
    /\ registry.call.before.state = "Started"
    /\ registry.call.cfg # registry.call.before.config
    /\ registry.reg.state = "Started"

----------------------------------------------------------------------------
(* C17: when several threads make their first ComparePluginOrder call      *)
(* concurrently, the snapshot is computed exactly once, and every caller   *)
(* does its lookups only after that one materialization has completed,     *)
(* never against an empty or partially filled snapshot.                    *)
C17_SnapshotComputedOnce ==
    /\ once.runs <= 1
    /\ \A t \in Callers :
        /\ threads[t].pc \in {"lookup", "returned"}
            => /\ once.runs = 1
               /\ nameToOrderInit
               /\ nameToOrder = MaterializeOrder(httpPlugins)
        /\ threads[t].pc = "returned"
            => threads[t].seen = MaterializeOrder(httpPlugins)

C17_Witness ==
    /\ \A t \in Callers : threads[t].pc = "returned" /\ threads[t].slow
    /\ Cardinality(DOMAIN httpPlugins) >= 2
    /\ once.runs = 1

----------------------------------------------------------------------------
(* C18: registry ParseConfig obtains the registry's config object, decodes *)
(* the raw data into it and then validates it, in that order: Validate     *)
(* never runs after a failed decode, a config is returned only when both   *)
(* steps succeeded, and the registry is not started, reloaded or stopped.  *)
C18_ParseConfigPipeline ==
    LET call == registry.call
    IN  call.op = "ParseConfig"
            => /\ call.steps = IF call.data.decodes
                               THEN <<"Config", "UnmarshalJSON", "Validate">>
                               ELSE <<"Config", "UnmarshalJSON">>
               /\ call.ok <=> (call.data.decodes /\ call.data.valid)
               /\ registry.reg = call.before

C18_Witness ==
    /\ registry.call.op = "ParseConfig"
    /\ ~registry.call.data.decodes
    /\ ~registry.call.ok
    /\ registry.reg.state = "Started"

----------------------------------------------------------------------------
(* C19: under any interleaving of concurrent RegisterHttpPlugin calls for  *)
(* the same name with different plugins, once all calls have returned the  *)
(* plugin in the catalog and the plugin behind the filter-manager entry    *)
(* for that name are the same plugin.                                      *)
C19_TablesAgreeAfterRegistration ==
    (\A t \in Registrars : threads[t].pc = "returned")
        => \A n \in DOMAIN httpPlugins : filterFactories[n] = httpPlugins[n]

----------------------------------------------------------------------------
(* C20: the registry-factory table is never accessed by two threads at     *)
(* once when one of them is writing.                                       *)
C20_NoOverlappingTableWrite ==
    \A t, u \in Accessors :
        (t # u /\ InTable(t) /\ InTable(u)) => ~(Writes(t) \/ Writes(u))

====
